---------------------------- MODULE Spec2Model ----------------------------
(***************************************************************************)
(* A model of the MoneroRequest_Rust crate (src/src/lib.rs): the record    *)
(* MoneroRequest, its in-place validator Validate, the identifier          *)
(* generator GenRandomPaymentID, and the envelope functions                *)
(* EncodePaymentRequest and DecodePaymentRequest.                          *)
(*                                                                         *)
(* Text is modelled as a sequence of Unicode code points; String::len() is *)
(* the length of its UTF-8 encoding in bytes.                              *)
(***************************************************************************)
EXTENDS Integers, Sequences, FiniteSets, TLC

(***************************************************************************)
(* Bounds of the model.                                                    *)
(***************************************************************************)
\* Number of fields of the reference record that a constructed record may
\* differ in.
MaxEdits == 2
\* Seeds of the sampled random streams are 0..MaxSeed.
MaxSeed == 1

(***************************************************************************)
(* Text.                                                                   *)
(***************************************************************************)
\* The printable ASCII characters U+0020..U+005F and U+0061..U+007E.
AsciiLow == " !\"#$%&'()*+,-./0123456789:;<=>?@ABCDEFGHIJKLMNOPQRSTUVWXYZ[\\]^_"
AsciiHigh == "abcdefghijklmnopqrstuvwxyz{|}~"

\* The code point of each printable ASCII character, the character given as
\* a 1-character string.
CodePoint ==
  [c \in {SubSeq(AsciiLow, i, i) : i \in 1..Len(AsciiLow)}
           \cup {SubSeq(AsciiHigh, i, i) : i \in 1..Len(AsciiHigh)} |->
     IF \E i \in 1..Len(AsciiLow) : SubSeq(AsciiLow, i, i) = c
     THEN 31 + (CHOOSE i \in 1..Len(AsciiLow) : SubSeq(AsciiLow, i, i) = c)
     ELSE 96 + (CHOOSE i \in 1..Len(AsciiHigh) : SubSeq(AsciiHigh, i, i) = c)]

Ord(c) == CodePoint[c]

\* A string literal as a sequence of code points.
Str(s) == [i \in 1..Len(s) |-> CodePoint[SubSeq(s, i, i)]]

\* A text of one character outside ASCII (U+00E9), two bytes in UTF-8.
NonAsciiText == <<233>>

\* char::len_utf8
Utf8Len(c) == IF c < 128 THEN 1 ELSE IF c < 2048 THEN 2 ELSE IF c < 65536 THEN 3 ELSE 4

\* String::len(): the number of bytes of the UTF-8 encoding, one for every
\* character and one more for each byte that Utf8Len counts beyond the first.
ByteLen(s) ==
  Len(s) + Cardinality({i \in 1..Len(s) : Utf8Len(s[i]) >= 2})
         + Cardinality({i \in 1..Len(s) : Utf8Len(s[i]) >= 3})
         + Cardinality({i \in 1..Len(s) : Utf8Len(s[i]) >= 4})

\* The UTF-8 encoding of one code point (up to three bytes suffice here).
Utf8Bytes(c) ==
  IF c < 128 THEN <<c>>
  ELSE IF c < 2048 THEN <<192 + (c \div 64), 128 + (c % 64)>>
  ELSE <<224 + (c \div 4096), 128 + ((c \div 64) % 64), 128 + (c % 64)>>

RECURSIVE AsBytes(_)
\* str::as_bytes (concatenated by halves).
AsBytes(s) ==
  IF s = <<>> THEN <<>>
  ELSE IF Len(s) = 1 THEN Utf8Bytes(s[1])
  ELSE AsBytes(SubSeq(s, 1, Len(s) \div 2)) \o AsBytes(SubSeq(s, Len(s) \div 2 + 1, Len(s)))

\* '0'..='9'
IsDigit(c) == c >= 48 /\ c <= 57
\* 'A'..='Z'
IsUpper(c) == c >= 65 /\ c <= 90
\* 'a'..='z'
IsLower(c) == c >= 97 /\ c <= 122

(***************************************************************************)
(* Errors (enum MoneroRequestError) and results.                           *)
(***************************************************************************)
InvalidInput(m) == [variant |-> "InvalidInput", msg |-> m]
ChronoError(m) == [variant |-> "ChronoError", msg |-> m]
UrlError(m) == [variant |-> "UrlError", msg |-> m]
NoError == [variant |-> "None", msg |-> ""]

ErrEmptyWallet == InvalidInput("No seller wallet specified.")
ErrWalletLength == InvalidInput("Incorrect seller wallet address length.")
ErrWalletPrefix == InvalidInput("Invalid wallet address. Doesnt start with 4 or 8.")
ErrWalletChar == InvalidInput("Invalid character in wallet address.")
ErrPaymentIDLength == InvalidInput("Invalid PaymentID length.")
ErrPaymentIDChar == InvalidInput("Invalid character in PaymentID.")
ErrCurrency == InvalidInput("Invalid Currency.")
ErrAmount == InvalidInput("Invalid Amount.")
ErrDays == InvalidInput("DaysPerBillingCycle cannot be zero.")
ErrUrlNotBase == InvalidInput("ChangeIndicatorURL is an invalid URL.")
ErrVersion == InvalidInput("Unsupported version.")

(***************************************************************************)
(* GenRandomPaymentID.                                                     *)
(***************************************************************************)
\* The upper-case digits of the example in the documentation.
HEXCharsUpper == Str("0123456789ABCDEF")
HEXChars == Str("0123456789abcdef")
\* Length of a payment id.
PaymentIDLen == 16
\* Lengths of a standard and of an integrated wallet address.
WalletLenStandard == 95
WalletLenIntegrated == 106

\* The sampled outcomes of the thread-local generator: stream s yields, as its
\* k-th draw of gen_range(0..=15), the value RngStream(s)[k].
RngStream(s) == [k \in 1..PaymentIDLen |-> (5 * s + (2 * s + 1) * k) % 16]
RngStreams == {RngStream(s) : s \in 0..MaxSeed}

\* iter::repeat_with(|| HEXChars.chars().nth(RNG.gen_range(0..=15)).unwrap()).take(16).collect()
GenRandomPaymentID(rng) == [k \in 1..PaymentIDLen |-> HEXChars[rng[k] + 1]]

(***************************************************************************)
(* Date-times: chrono's DateTime<Utc>, its FromStr (a relaxed RFC 3339)    *)
(* and its Display.  The model covers the forms with fixed-width fields.   *)
(***************************************************************************)
RECURSIVE Num(_)
\* The value of a run of decimal digits.
Num(s) == IF s = <<>> THEN 0 ELSE 10 * Num(SubSeq(s, 1, Len(s) - 1)) + (s[Len(s)] - 48)

AllDigits(s) == \A i \in 1..Len(s) : IsDigit(s[i])

RECURSIVE Pad(_, _)
\* n in decimal, zero-padded to w digits.
Pad(n, w) == IF w = 0 THEN <<>> ELSE Pad(n \div 10, w - 1) \o <<48 + (n % 10)>>

IsLeap(y) == (y % 4 = 0 /\ y % 100 # 0) \/ y % 400 = 0
DaysInMonth(y, m) ==
  IF m = 2 THEN (IF IsLeap(y) THEN 29 ELSE 28)
  ELSE IF m \in {4, 6, 9, 11} THEN 30 ELSE 31

\* The calendar day before and after a day.
PrevDay(d) ==
  IF d.D > 1 THEN [d EXCEPT !.D = d.D - 1]
  ELSE IF d.Mo > 1 THEN [d EXCEPT !.Mo = d.Mo - 1, !.D = DaysInMonth(d.Y, d.Mo - 1)]
  ELSE [d EXCEPT !.Y = d.Y - 1, !.Mo = 12, !.D = 31]
NextDay(d) ==
  IF d.D < DaysInMonth(d.Y, d.Mo) THEN [d EXCEPT !.D = d.D + 1]
  ELSE IF d.Mo < 12 THEN [d EXCEPT !.Mo = d.Mo + 1, !.D = 1]
  ELSE [d EXCEPT !.Y = d.Y + 1, !.Mo = 1, !.D = 1]

\* with_timezone(&Utc): the instant of a local date-time whose offset from UTC
\* is off minutes.
ToUtc(d, off) ==
  LET m == d.h * 60 + d.mi - off
  IN  IF m < 0 THEN [PrevDay(d) EXCEPT !.h = (m + 1440) \div 60, !.mi = (m + 1440) % 60]
      ELSE IF m >= 1440 THEN [NextDay(d) EXCEPT !.h = (m - 1440) \div 60, !.mi = (m - 1440) % 60]
      ELSE [d EXCEPT !.h = m \div 60, !.mi = m % 60]

RECURSIVE DigitRun(_)
\* The longest prefix of s made of digits.
DigitRun(s) == IF s # <<>> /\ IsDigit(Head(s)) THEN <<Head(s)>> \o DigitRun(Tail(s)) ELSE <<>>

RECURSIVE TrimStart(_)
TrimStart(s) == IF s # <<>> /\ Head(s) = 32 THEN TrimStart(Tail(s)) ELSE s

Drop(s, n) == SubSeq(s, n + 1, Len(s))

\* ASCII lower case of a code point.
Lower(c) == IF IsUpper(c) THEN c + 32 ELSE c
LowerText(s) == [i \in 1..Len(s) |-> Lower(s[i])]

\* The nanoseconds denoted by the digits of a fraction of a second.
FractionNanos(ds) == Num(SubSeq(ds \o <<48, 48, 48, 48, 48, 48, 48, 48, 48>>, 1, 9))

UtcName == Str("utc")

\* The zone of a date-time text: "Z", "UTC" or a numeric offset +hh:mm or
\* -hh:mm, followed by nothing but spaces.
ParseZone(z) ==
  LET bad == [ok |-> FALSE, off |-> 0]
  IN  IF z # <<>> /\ Lower(z[1]) = Ord("z")
      THEN [ok |-> TrimStart(Drop(z, 1)) = <<>>, off |-> 0]
      ELSE IF Len(z) >= 3 /\ LowerText(SubSeq(z, 1, 3)) = UtcName
      THEN [ok |-> TrimStart(Drop(z, 3)) = <<>>, off |-> 0]
      ELSE IF Len(z) >= 6 /\ z[1] \in {Ord("+"), Ord("-")} /\ AllDigits(SubSeq(z, 2, 3))
              /\ z[4] = Ord(":") /\ AllDigits(SubSeq(z, 5, 6))
      THEN LET hh == Num(SubSeq(z, 2, 3))
               mm == Num(SubSeq(z, 5, 6))
           IN  [ok |-> hh <= 23 /\ mm <= 59 /\ TrimStart(Drop(z, 6)) = <<>>,
                off |-> (IF z[1] = Ord("-") THEN 0 - 1 ELSE 1) * (hh * 60 + mm)]
      ELSE bad

NoDateTime == [Y |-> 0, Mo |-> 0, D |-> 0, h |-> 0, mi |-> 0, s |-> 0, ns |-> 0]

\* str::parse::<DateTime<Utc>>
ParseDateTime(t) ==
  LET bad == [ok |-> FALSE, dt |-> NoDateTime]
  IN  IF ~(Len(t) >= 19 /\ AllDigits(SubSeq(t, 1, 4)) /\ t[5] = Ord("-")
            /\ AllDigits(SubSeq(t, 6, 7)) /\ t[8] = Ord("-") /\ AllDigits(SubSeq(t, 9, 10))
            /\ t[11] \in {Ord("T"), Ord("t"), Ord(" ")}
            /\ AllDigits(SubSeq(t, 12, 13)) /\ t[14] = Ord(":")
            /\ AllDigits(SubSeq(t, 15, 16)) /\ t[17] = Ord(":") /\ AllDigits(SubSeq(t, 18, 19)))
      THEN bad
      ELSE
        LET local == [Y |-> Num(SubSeq(t, 1, 4)), Mo |-> Num(SubSeq(t, 6, 7)),
                      D |-> Num(SubSeq(t, 9, 10)), h |-> Num(SubSeq(t, 12, 13)),
                      mi |-> Num(SubSeq(t, 15, 16)), s |-> Num(SubSeq(t, 18, 19)), ns |-> 0]
            rest == Drop(t, 19)
            hasFrac == rest # <<>> /\ rest[1] = Ord(".")
            frac == IF hasFrac THEN DigitRun(Drop(rest, 1)) ELSE <<>>
            zone == ParseZone(TrimStart(IF hasFrac THEN Drop(rest, 1 + Len(frac)) ELSE rest))
        IN  IF /\ local.Mo \in 1..12
               /\ local.D \in 1..DaysInMonth(local.Y, local.Mo)
               /\ local.h <= 23 /\ local.mi <= 59 /\ local.s <= 59
               /\ (hasFrac => frac # <<>>)
               /\ zone.ok
            THEN [ok |-> TRUE, dt |-> ToUtc([local EXCEPT !.ns = FractionNanos(frac)], zone.off)]
            ELSE bad

UtcSuffix == Str(" UTC")

\* DateTimeToString without the zone.
DateTimeToStringNoZone(d) ==
  Pad(d.Y, 4) \o <<Ord("-")>> \o Pad(d.Mo, 2) \o <<Ord("-")>> \o Pad(d.D, 2) \o <<Ord(" ")>>
    \o Pad(d.h, 2) \o <<Ord(":")>> \o Pad(d.mi, 2) \o <<Ord(":")>> \o Pad(d.s, 2)

\* DateTime<Utc>::to_string
DateTimeToString(d) ==
  Pad(d.Y, 4) \o <<Ord("-")>> \o Pad(d.Mo, 2) \o <<Ord("-")>> \o Pad(d.D, 2) \o <<Ord(" ")>>
    \o Pad(d.h, 2) \o <<Ord(":")>> \o Pad(d.mi, 2) \o <<Ord(":")>> \o Pad(d.s, 2)
    \o (IF d.ns = 0 THEN <<>>
        ELSE IF d.ns % 1000000 = 0 THEN <<Ord(".")>> \o Pad(d.ns \div 1000000, 3)
        ELSE IF d.ns % 1000 = 0 THEN <<Ord(".")>> \o Pad(d.ns \div 1000, 6)
        ELSE <<Ord(".")>> \o Pad(d.ns, 9))
    \o UtcSuffix

\* The sampled readings of Utc::now().
Clock ==
  { [Y |-> 2023, Mo |-> 4, D |-> 26, h |-> 13, mi |-> 45, s |-> 33, ns |-> 123456789],
    [Y |-> 2024, Mo |-> 2, D |-> 29, h |-> 23, mi |-> 59, s |-> 59, ns |-> 0] }

(***************************************************************************)
(* URLs: url::Url::parse without a base URL, and Url::cannot_be_a_base.    *)
(* The model covers the scheme, and the host of a special scheme.          *)
(***************************************************************************)
RECURSIVE TrimEnd(_)
TrimEnd(s) == IF s # <<>> /\ s[Len(s)] <= 32 THEN TrimEnd(SubSeq(s, 1, Len(s) - 1)) ELSE s
RECURSIVE TrimC0Start(_)
TrimC0Start(s) == IF s # <<>> /\ Head(s) <= 32 THEN TrimC0Start(Tail(s)) ELSE s

IsSchemeChar(c) == IsDigit(c) \/ IsUpper(c) \/ IsLower(c) \/ c \in {Ord("+"), Ord("-"), Ord(".")}

RECURSIVE SchemeRun(_)
\* The longest prefix of s made of scheme characters.
SchemeRun(s) == IF s # <<>> /\ IsSchemeChar(Head(s)) THEN <<Head(s)>> \o SchemeRun(Tail(s)) ELSE <<>>

RECURSIVE SkipSlashes(_)
SkipSlashes(s) ==
  IF s # <<>> /\ Head(s) \in {Ord("/"), Ord("\\")} THEN SkipSlashes(Tail(s)) ELSE s

RECURSIVE HostRun(_)
\* The prefix of s up to the first of "/", "\", "?", "#".
HostRun(s) ==
  IF s # <<>> /\ Head(s) \notin {Ord("/"), Ord("\\"), Ord("?"), Ord("#")}
  THEN <<Head(s)>> \o HostRun(Tail(s)) ELSE <<>>

SpecialSchemes == {Str("http"), Str("https"), Str("ws"), Str("wss"), Str("ftp")}
FileScheme == Str("file")
ForbiddenHostChars == {Ord(" "), Ord("<"), Ord(">"), Ord("^"), Ord("|")}

\* url::Url::parse
UrlParse(t) ==
  LET u == TrimEnd(TrimC0Start(t))
      sch == SchemeRun(u)
      rest == Drop(u, Len(sch) + 1)
      fail(m) == [ok |-> FALSE, cannot_be_a_base |-> FALSE, err |-> m]
      good(c) == [ok |-> TRUE, cannot_be_a_base |-> c, err |-> ""]
  IN  IF ~(sch # <<>> /\ (IsUpper(sch[1]) \/ IsLower(sch[1]))
            /\ Len(u) > Len(sch) /\ u[Len(sch) + 1] = Ord(":"))
      THEN fail("relative URL without a base")
      ELSE IF LowerText(sch) \in SpecialSchemes
      THEN LET host == HostRun(SkipSlashes(rest))
           IN  IF host = <<>> THEN fail("empty host")
               ELSE IF \E i \in 1..Len(host) : host[i] \in ForbiddenHostChars
               THEN fail("invalid domain character")
               ELSE good(FALSE)
      ELSE IF LowerText(sch) = FileScheme THEN good(FALSE)
      ELSE good(~(rest # <<>> /\ rest[1] = Ord("/")))

(***************************************************************************)
(* MoneroRequest::Validate.                                                *)
(***************************************************************************)
DefaultLabel == Str("Monero Payment Request")
Currencies == {Str("USD"), Str("XMR")}
LatestVersion == Str("1")

\* '0'..='9' | 'A'..='Z' | 'a'..='z'
IsWalletChar(c) == IsDigit(c) \/ IsUpper(c) \/ IsLower(c)
\* IsPaymentIDChar accepting the upper-case hexadecimal digits too.
IsPaymentIDCharAnyCase(c) == IsDigit(c) \/ (c >= 97 /\ c <= 102) \/ (c >= 65 /\ c <= 70)
\* '0'..='9' | 'a'..='f'
IsPaymentIDChar(c) == IsDigit(c) \/ (c >= 97 /\ c <= 102)
\* The character class [\d,.] on the characters of the model.
IsAmountChar(c) == IsDigit(c) \/ c \in {Ord(","), Ord(".")}

\* Regex::new(r"(?m)[\d,.]+").is_match(a): some non-empty run of characters
\* of the class occurs in a.
AmountIsMatch(a) ==
  \E i \in 1..Len(a) : \E j \in i..Len(a) : \A k \in i..j : IsAmountChar(a[k])

\* WalletLengthOk accepting every length from 95 to 106.
WalletLengthOkRange(n) == n >= WalletLenStandard /\ n <= WalletLenIntegrated
\* match self.SellersWallet.len() { 95 | 106 => {} ... }
WalletLengthOk(n) == n \in {WalletLenStandard, WalletLenIntegrated}

Ok(r) == [rec |-> r, ok |-> TRUE, err |-> NoError]
Err(r, e) == [rec |-> r, ok |-> FALSE, err |-> e]

\* ValidateRest with the DaysPerBillingCycle rule placed before the Currency
\* rule.
ValidateRestDaysFirst(self) ==
  IF self.DaysPerBillingCycle = 0 THEN Err(self, ErrDays)
  ELSE IF self.Currency \notin Currencies THEN Err(self, ErrCurrency)
  ELSE IF ~AmountIsMatch(self.Amount) THEN Err(self, ErrAmount)
  ELSE
    LET u == UrlParse(self.ChangeIndicatorURL)
    IN  IF ByteLen(self.ChangeIndicatorURL) > 0 /\ ~u.ok THEN Err(self, UrlError(u.err))
        ELSE IF ByteLen(self.ChangeIndicatorURL) > 0 /\ u.cannot_be_a_base
        THEN Err(self, ErrUrlNotBase)
        ELSE IF self.Version = <<>> THEN Ok([self EXCEPT !.Version = LatestVersion])
        ELSE IF self.Version = LatestVersion THEN Ok(self)
        ELSE Err(self, ErrVersion)

\* ValidateRest with a rule that NumberOfPayments is not zero.
ValidateRestPaymentsNonzero(self) ==
  IF self.Currency \notin Currencies THEN Err(self, ErrCurrency)
  ELSE IF ~AmountIsMatch(self.Amount) THEN Err(self, ErrAmount)
  ELSE IF self.DaysPerBillingCycle = 0 THEN Err(self, ErrDays)
  ELSE IF self.NumberOfPayments = 0
  THEN Err(self, InvalidInput("NumberOfPayments cannot be zero."))
  ELSE
    LET u == UrlParse(self.ChangeIndicatorURL)
    IN  IF ByteLen(self.ChangeIndicatorURL) > 0 /\ ~u.ok THEN Err(self, UrlError(u.err))
        ELSE IF ByteLen(self.ChangeIndicatorURL) > 0 /\ u.cannot_be_a_base
        THEN Err(self, ErrUrlNotBase)
        ELSE IF self.Version = <<>> THEN Ok([self EXCEPT !.Version = LatestVersion])
        ELSE IF self.Version = LatestVersion THEN Ok(self)
        ELSE Err(self, ErrVersion)

\* ValidateRest with the default of Version applied before the other rules.
ValidateRestVersionFirst(self) ==
  LET r == IF self.Version = <<>> THEN [self EXCEPT !.Version = LatestVersion] ELSE self
      u == UrlParse(r.ChangeIndicatorURL)
  IN  IF r.Currency \notin Currencies THEN Err(r, ErrCurrency)
      ELSE IF ~AmountIsMatch(r.Amount) THEN Err(r, ErrAmount)
      ELSE IF r.DaysPerBillingCycle = 0 THEN Err(r, ErrDays)
      ELSE IF ByteLen(r.ChangeIndicatorURL) > 0 /\ ~u.ok THEN Err(r, UrlError(u.err))
      ELSE IF ByteLen(r.ChangeIndicatorURL) > 0 /\ u.cannot_be_a_base
      THEN Err(r, ErrUrlNotBase)
      ELSE IF r.Version = LatestVersion THEN Ok(r)
      ELSE Err(r, ErrVersion)

\* The rules from Currency on (self has the label, the payment id and the
\* start date already settled).
ValidateRest(self) ==
  IF self.Currency \notin Currencies THEN Err(self, ErrCurrency)
  ELSE IF ~AmountIsMatch(self.Amount) THEN Err(self, ErrAmount)
  ELSE IF self.DaysPerBillingCycle = 0 THEN Err(self, ErrDays)
  ELSE
    LET u == UrlParse(self.ChangeIndicatorURL)
    IN  IF ByteLen(self.ChangeIndicatorURL) > 0 /\ ~u.ok THEN Err(self, UrlError(u.err))
        ELSE IF ByteLen(self.ChangeIndicatorURL) > 0 /\ u.cannot_be_a_base
        THEN Err(self, ErrUrlNotBase)
        ELSE IF self.Version = <<>> THEN Ok([self EXCEPT !.Version = LatestVersion])
        ELSE IF self.Version = LatestVersion THEN Ok(self)
        ELSE Err(self, ErrVersion)

\* The rules from StartDate on; Utc::now() is read when StartDate is empty.
ValidateFromStartDate(self) ==
  LET d == ParseDateTime(self.StartDate)
  IN  IF ByteLen(self.StartDate) = 0
      THEN {ValidateRest([self EXCEPT !.StartDate = DateTimeToString(now)]) : now \in Clock}
      ELSE IF ~d.ok THEN {Err(self, ChronoError("input is not a date-time"))}
      ELSE {ValidateRest([self EXCEPT !.StartDate = DateTimeToString(d.dt)])}

\* The character rule of PaymentID and the rules after it.
ValidateFromPaymentIDChars(self) ==
  IF \E i \in 1..Len(self.PaymentID) : ~IsPaymentIDChar(self.PaymentID[i])
  THEN {Err(self, ErrPaymentIDChar)}
  ELSE ValidateFromStartDate(self)

\* The rules from PaymentID on; the random generator is drawn from when
\* PaymentID is empty.
ValidateFromPaymentID(self) ==
  IF ByteLen(self.PaymentID) = 0
  THEN UNION {ValidateFromPaymentIDChars([self EXCEPT !.PaymentID = GenRandomPaymentID(rng)]) :
              rng \in RngStreams}
  ELSE IF ByteLen(self.PaymentID) # PaymentIDLen THEN {Err(self, ErrPaymentIDLength)}
  ELSE ValidateFromPaymentIDChars(self)

\* fn Validate(&mut self) -> Result<(), MoneroRequestError>: the outcomes the
\* call can have, one for each value the random generator and the clock can
\* yield where they are asked; rec is self when the function returns.
Validate(self) ==
  LET r1 == IF ByteLen(self.CustomLabel) = 0
            THEN [self EXCEPT !.CustomLabel = DefaultLabel] ELSE self
      w == r1.SellersWallet
  IN  IF ByteLen(w) = 0 THEN {Err(r1, ErrEmptyWallet)}
      ELSE IF ~WalletLengthOk(ByteLen(w)) THEN {Err(r1, ErrWalletLength)}
      ELSE IF w[1] # Ord("4") /\ w[1] # Ord("8") THEN {Err(r1, ErrWalletPrefix)}
      ELSE IF \E i \in 1..Len(w) : ~IsWalletChar(w[i]) THEN {Err(r1, ErrWalletChar)}
      ELSE ValidateFromPaymentID(r1)

(***************************************************************************)
(* Serialization: serde_json::to_string of the derived Serialize.          *)
(***************************************************************************)
RECURSIVE Decimal(_)
\* An unsigned integer in decimal, without leading zeros.
Decimal(n) == IF n < 10 THEN <<48 + n>> ELSE Decimal(n \div 10) \o <<48 + (n % 10)>>

HexDigitsLower == Str("0123456789abcdef")

\* One character inside a JSON string.
JsonEscape(c) ==
  IF c = 34 THEN Str("\\\"")
  ELSE IF c = 92 THEN Str("\\\\")
  ELSE IF c = 10 THEN Str("\\n")
  ELSE IF c = 13 THEN Str("\\r")
  ELSE IF c = 9 THEN Str("\\t")
  ELSE IF c = 8 THEN Str("\\b")
  ELSE IF c = 12 THEN Str("\\f")
  ELSE IF c < 32 THEN Str("\\u00") \o <<HexDigitsLower[(c \div 16) + 1], HexDigitsLower[(c % 16) + 1]>>
  ELSE <<c>>

RECURSIVE JsonChars(_)
\* The characters of a text, escaped (concatenated by halves).
JsonChars(t) ==
  IF t = <<>> THEN <<>>
  ELSE IF Len(t) = 1 THEN JsonEscape(t[1])
  ELSE JsonChars(SubSeq(t, 1, Len(t) \div 2)) \o JsonChars(SubSeq(t, Len(t) \div 2 + 1, Len(t)))

JsonString(t) == <<34>> \o JsonChars(t) \o <<34>>

JsonKey(k) == <<34>> \o Str(k) \o <<34, 58>>

\* The keys of the fields, each with the separator that precedes it.
KeyCustomLabel == <<123>> \o JsonKey("CustomLabel")
KeySellersWallet == <<44>> \o JsonKey("SellersWallet")
KeyCurrency == <<44>> \o JsonKey("Currency")
KeyAmount == <<44>> \o JsonKey("Amount")
KeyPaymentID == <<44>> \o JsonKey("PaymentID")
KeyStartDate == <<44>> \o JsonKey("StartDate")
KeyDaysPerBillingCycle == <<44>> \o JsonKey("DaysPerBillingCycle")
KeyNumberOfPayments == <<44>> \o JsonKey("NumberOfPayments")
KeyChangeIndicatorURL == <<44>> \o JsonKey("ChangeIndicatorURL")
KeyVersion == <<44>> \o JsonKey("Version")

\* serde_json::to_string(&Request): the fields in the order of their
\* declaration, without white space.
ToJson(r) ==
  KeyCustomLabel \o JsonString(r.CustomLabel)
    \o KeySellersWallet \o JsonString(r.SellersWallet)
    \o KeyCurrency \o JsonString(r.Currency)
    \o KeyAmount \o JsonString(r.Amount)
    \o KeyPaymentID \o JsonString(r.PaymentID)
    \o KeyStartDate \o JsonString(r.StartDate)
    \o KeyDaysPerBillingCycle \o Decimal(r.DaysPerBillingCycle)
    \o KeyNumberOfPayments \o Decimal(r.NumberOfPayments)
    \o KeyChangeIndicatorURL \o JsonString(r.ChangeIndicatorURL)
    \o KeyVersion \o JsonString(r.Version)
    \o <<125>>

(***************************************************************************)
(* Compression: flate2's GzEncoder.  The model writes the gzip member      *)
(* (RFC 1952) around a DEFLATE stream of one stored block (RFC 1951); the  *)
(* compressor's choice of blocks and codes is not modelled.                *)
(***************************************************************************)
\* n as k bytes, least significant first.
RECURSIVE LittleEndian(_, _)
LittleEndian(n, k) == IF k = 0 THEN <<>> ELSE <<n % 256>> \o LittleEndian(n \div 256, k - 1)

\* ID1 ID2 CM FLG MTIME(4) XFL OS
GzHeader == <<31, 139, 8, 0, 0, 0, 0, 0, 0, 255>>

\* BFINAL = 1, BTYPE = 00, then LEN, its complement, and the bytes.
StoredBlock(b) == <<1>> \o LittleEndian(Len(b), 2) \o LittleEndian(65535 - Len(b), 2) \o b

RECURSIVE Xor(_, _)
\* Bitwise exclusive or of two naturals.
Xor(a, b) ==
  IF a = 0 THEN b ELSE IF b = 0 THEN a
  ELSE ((a + b) % 2) + 2 * Xor(a \div 2, b \div 2)

\* One bit of the CRC-32 division on a 32-bit value kept as two 16-bit halves;
\* the reflected polynomial is EDB88320 (hexadecimal).
CrcShift(v) ==
  LET hi == v[1] \div 2
      lo == v[2] \div 2 + (v[1] % 2) * 32768
  IN  IF v[2] % 2 = 1 THEN <<Xor(hi, 60856), Xor(lo, 33568)>> ELSE <<hi, lo>>

CrcTable ==
  [n \in 0..255 |->
     LET v == CrcShift(CrcShift(CrcShift(CrcShift(CrcShift(CrcShift(CrcShift(CrcShift(<<0, n>>))))))))
     IN  <<v[2] % 256, v[2] \div 256, v[1] % 256, v[1] \div 256>>]

\* The exclusive or of two 4-bit values, tabulated, and of two bytes.
XorNibble == [a \in 0..15 |-> [b \in 0..15 |-> Xor(a, b)]]
XorByte(a, b) == 16 * XorNibble[a \div 16][b \div 16] + XorNibble[a % 16][b % 16]

\* The CRC register, as four bytes least significant first, after one more byte.
CrcByte(crc, x) ==
  LET t == CrcTable[XorByte(crc[1], x)]
  IN  <<XorByte(crc[2], t[1]), XorByte(crc[3], t[2]), XorByte(crc[4], t[3]), t[4]>>

\* The CRC-32 of b as the four bytes of the gzip trailer.  Update[c, i, j] is
\* the CRC register after the bytes b[i..j], i <= j, taken by halves.
Crc32(b) ==
  LET Update[a \in Seq(0..255) \X Nat \X Nat] ==
        IF a[2] = a[3] THEN CrcByte(a[1], b[a[2]])
        ELSE LET m == (a[2] + a[3]) \div 2
             IN  Update[<<Update[<<a[1], a[2], m>>], m + 1, a[3]>>]
      c == IF b = <<>> THEN <<255, 255, 255, 255>>
           ELSE Update[<<<<255, 255, 255, 255>>, 1, Len(b)>>]
  IN  [k \in 1..4 |-> 255 - c[k]]

\* GzEncoder::new(Vec::new(), Compression::default()), write_all, finish:
\* writing to a Vec does not fail.
GZip(b) == GzHeader \o StoredBlock(b) \o Crc32(b) \o LittleEndian(Len(b), 4)

(***************************************************************************)
(* base64::engine::general_purpose::STANDARD                               *)
(***************************************************************************)
\* The alphabet of the URL_SAFE engine.
Base64AlphabetUrlSafe == Str("ABCDEFGHIJKLMNOPQRSTUVWXYZabcdefghijklmnopqrstuvwxyz0123456789-_")
Base64Alphabet == Str("ABCDEFGHIJKLMNOPQRSTUVWXYZabcdefghijklmnopqrstuvwxyz0123456789+/")
Base64Pad == 61

B64(n) == Base64Alphabet[n + 1]

\* STANDARD.encode: every three bytes give four characters; a last group of
\* one or two bytes is completed with the padding character.
Base64Encode(b) ==
  LET n == Len(b)
      byte(k) == IF k <= n THEN b[k] ELSE 0
  IN  [i \in 1..(4 * ((n + 2) \div 3)) |->
         LET g == 3 * ((i - 1) \div 4)
             k == (i - 1) % 4
         IN  IF k = 0 THEN B64(byte(g + 1) \div 4)
             ELSE IF k = 1 THEN B64((byte(g + 1) % 4) * 16 + byte(g + 2) \div 16)
             ELSE IF k = 2
             THEN (IF g + 2 > n THEN Base64Pad
                   ELSE B64((byte(g + 2) % 16) * 4 + byte(g + 3) \div 64))
             ELSE (IF g + 3 > n THEN Base64Pad ELSE B64(byte(g + 3) % 64))]

(***************************************************************************)
(* EncodePaymentRequest and DecodePaymentRequest.                          *)
(***************************************************************************)
Tag == Str("monero-request:1:")

\* pub fn EncodePaymentRequest(mut Request: MoneroRequest)
\*   -> Result<String, MoneroRequestError>
\* rec is the local Request when the function returns.
EncodePaymentRequest(Request) ==
  { IF ~v.ok THEN [rec |-> v.rec, ok |-> FALSE, err |-> v.err, value |-> <<>>]
    ELSE [rec |-> v.rec, ok |-> TRUE, err |-> NoError,
          value |-> Tag \o Base64Encode(GZip(AsBytes(ToJson(v.rec))))] :
    v \in Validate(Request) }

\* pub fn DecodePaymentRequest(Request: String) { /* TODO */ }: the body is
\* empty and the function returns the unit value.
DecodePaymentRequest(Request) == [kind |-> "Unit"]

(***************************************************************************)
(* The records a caller constructs: the record of the crate's test         *)
(* (tests/tests.rs), with the payment id of sixteen zeros that the         *)
(* documentation of EncodePaymentRequest names, and with at most MaxEdits  *)
(* of its parts replaced.                                                  *)
(***************************************************************************)
TestWallet ==
  Str("4At3X5rvVypTofgmueN9s9QtrzdRe5BueFrskAZi17BoYbhzysozzoMFB6zWnTKdGC6AxEAbEE5czFR3hbEEJbsm4hCeX2S")
\* Characters that extend the test wallet to an integrated address and beyond.
WalletExtension == Str("7fK2pQ9xLmN3")

\* A wallet text of n bytes made from the test wallet: its first character is
\* first, and the text bad, when not empty, takes the place of as many bytes
\* in the middle.
MakeWallet(n, first, bad) ==
  LET base == SubSeq(TestWallet \o WalletExtension, 1, n)
  IN  IF n = 0 THEN <<>>
      ELSE <<first>> \o SubSeq(base, 2, 49)
             \o (IF bad = <<>> THEN SubSeq(base, 50, n)
                 ELSE bad \o SubSeq(base, 50 + ByteLen(bad), n))

TestRecord ==
  [ CustomLabel |-> Str("A label"),
    SellersWallet |-> TestWallet,
    Currency |-> Str("USD"),
    Amount |-> Str("123.45"),
    PaymentID |-> Str("0000000000000000"),
    StartDate |-> Str("2023-04-26T13:45:33.123Z"),
    DaysPerBillingCycle |-> 30,
    NumberOfPayments |-> 12,
    ChangeIndicatorURL |-> Str("https://Somewhere.com"),
    Version |-> Str("1") ]

\* The parts of a record and the values that may replace the test's value.
Alternatives ==
  [ CustomLabel |-> << <<>> >>,
    WalletLen |-> <<0, 94, 96, 105, 106, 107>>,
    WalletFirst |-> <<Ord("8"), Ord("5")>>,
    WalletBad |-> <<Str("-"), NonAsciiText>>,
    Currency |-> <<Str("XMR"), Str("EUR")>>,
    Amount |-> << <<>>, Str("abc"), Str(","), Str("."), Str("$5 now") >>,
    PaymentID |-> << <<>>, Str("60B6A010501201F1"), Str("0123456789abcdefg"),
                    Str("0123456789abcd") \o NonAsciiText >>,
    StartDate |-> << <<>>, Str("2023-12-31T23:45:33.5 -01:30"), Str("tomorrow") >>,
    DaysPerBillingCycle |-> <<0>>,
    NumberOfPayments |-> <<0, 255>>,
    ChangeIndicatorURL |-> << <<>>, Str("not a url"), Str("mailto:a@b.c"), Str("https://") >>,
    Version |-> << <<>>, Str("2") >> ]

Parts == DOMAIN Alternatives

\* The choices of at most MaxEdits parts, each with the index of the value
\* that replaces it.
Edits ==
  UNION { {e \in [D -> 1..6] : \A p \in D : e[p] <= Len(Alternatives[p])} :
          D \in {D \in SUBSET Parts : Cardinality(D) <= MaxEdits} }

\* The value of part p under the edits e, v being the test's value.
Pick(e, p, v) == IF p \in DOMAIN e THEN Alternatives[p][e[p]] ELSE v

MakeRecord(e) ==
  [ CustomLabel |-> Pick(e, "CustomLabel", TestRecord.CustomLabel),
    SellersWallet |-> MakeWallet(Pick(e, "WalletLen", WalletLenStandard),
                                 Pick(e, "WalletFirst", Ord("4")),
                                 Pick(e, "WalletBad", <<>>)),
    Currency |-> Pick(e, "Currency", TestRecord.Currency),
    Amount |-> Pick(e, "Amount", TestRecord.Amount),
    PaymentID |-> Pick(e, "PaymentID", TestRecord.PaymentID),
    StartDate |-> Pick(e, "StartDate", TestRecord.StartDate),
    DaysPerBillingCycle |-> Pick(e, "DaysPerBillingCycle", TestRecord.DaysPerBillingCycle),
    NumberOfPayments |-> Pick(e, "NumberOfPayments", TestRecord.NumberOfPayments),
    ChangeIndicatorURL |-> Pick(e, "ChangeIndicatorURL", TestRecord.ChangeIndicatorURL),
    Version |-> Pick(e, "Version", TestRecord.Version) ]

Records == {MakeRecord(e) : e \in Edits}

(***************************************************************************)
(* The state machine: a caller constructs a record and calls the crate.    *)
(***************************************************************************)
VARIABLES
  Request,   \* the record (struct MoneroRequest) the calls act on
  Input,     \* the record as the caller constructed it
  Before,    \* the record when the latest call began
  moved,     \* TRUE once the record has been passed by value to encode
  ret        \* the latest call and what it returned

vars == <<Request, Input, Before, moved, ret>>

Returned(op, kind, err, value) == [op |-> op, kind |-> kind, err |-> err, value |-> value]

Init ==
  /\ Request \in Records
  /\ Input = Request
  /\ Before = Request
  /\ moved = FALSE
  /\ ret = Returned("None", "None", NoError, <<>>)

\* self.Validate() on the caller's record; a caller leaves a record alone
\* once a call has rejected it.
DoValidate ==
  /\ ~moved
  /\ ret.kind # "Err"
  /\ \E v \in Validate(Request) :
       /\ Request' = v.rec
       /\ ret' = Returned("Validate", IF v.ok THEN "Ok" ELSE "Err", v.err, <<>>)
  /\ Before' = Request
  /\ UNCHANGED <<Input, moved>>

\* EncodePaymentRequest(Request): the record is moved into the call.
DoEncode ==
  /\ ~moved
  /\ ret.kind # "Err"
  /\ \E v \in EncodePaymentRequest(Request) :
       /\ Request' = v.rec
       /\ ret' = Returned("EncodePaymentRequest", IF v.ok THEN "Ok" ELSE "Err", v.err, v.value)
  /\ Before' = Request
  /\ moved' = TRUE
  /\ UNCHANGED Input

\* DecodePaymentRequest(text) on the text the encoder returned.
DoDecode ==
  /\ ret.op = "EncodePaymentRequest"
  /\ ret.kind = "Ok"
  /\ ret' = Returned("DecodePaymentRequest", DecodePaymentRequest(ret.value).kind, NoError, <<>>)
  /\ UNCHANGED <<Request, Input, Before, moved>>

\* GenRandomPaymentID() called on its own, after the other calls.
DoGenRandomPaymentID ==
  /\ ret.op = "DecodePaymentRequest"
  /\ \E rng \in RngStreams :
       ret' = Returned("GenRandomPaymentID", "Value", NoError, GenRandomPaymentID(rng))
  /\ UNCHANGED <<Request, Input, Before, moved>>

Next == DoValidate \/ DoEncode \/ DoDecode \/ DoGenRandomPaymentID

Spec == Init /\ [][Next]_vars

(***************************************************************************)
(* The rules of Validate, each as a condition on the record a call finds,  *)
(* in the order in which the specification lists them.                     *)
(***************************************************************************)
Rules == 1..12

RuleViolated(k, r) ==
  CASE k = 1 -> r.SellersWallet = <<>>
    [] k = 2 -> ByteLen(r.SellersWallet) \notin {95, 106}
    [] k = 3 -> r.SellersWallet # <<>> /\ r.SellersWallet[1] \notin {Ord("4"), Ord("8")}
    [] k = 4 -> \E i \in 1..Len(r.SellersWallet) : ~IsWalletChar(r.SellersWallet[i])
    [] k = 5 -> r.PaymentID # <<>> /\ ByteLen(r.PaymentID) # 16
    [] k = 6 -> \E i \in 1..Len(r.PaymentID) : ~IsPaymentIDChar(r.PaymentID[i])
    [] k = 7 -> r.StartDate # <<>> /\ ~ParseDateTime(r.StartDate).ok
    [] k = 8 -> r.Currency \notin Currencies
    [] k = 9 -> ~AmountIsMatch(r.Amount)
    [] k = 10 -> r.DaysPerBillingCycle = 0
    [] k = 11 -> r.ChangeIndicatorURL # <<>>
                 /\ (~UrlParse(r.ChangeIndicatorURL).ok
                     \/ UrlParse(r.ChangeIndicatorURL).cannot_be_a_base)
    [] k = 12 -> r.Version \notin {<<>>, Str("1")}

\* The error e is the error, or one of the errors, of rule k.
IsErrorOf(k, e) ==
  CASE k = 1 -> e = ErrEmptyWallet
    [] k = 2 -> e = ErrWalletLength
    [] k = 3 -> e = ErrWalletPrefix
    [] k = 4 -> e = ErrWalletChar
    [] k = 5 -> e = ErrPaymentIDLength
    [] k = 6 -> e = ErrPaymentIDChar
    [] k = 7 -> e.variant = "ChronoError"
    [] k = 8 -> e = ErrCurrency
    [] k = 9 -> e = ErrAmount
    [] k = 10 -> e = ErrDays
    [] k = 11 -> e.variant = "UrlError" \/ e = ErrUrlNotBase
    [] k = 12 -> e = ErrVersion

RECURSIVE FirstViolatedFrom(_, _)
\* The earliest rule from rule k on that r violates; 0 when it violates none.
FirstViolatedFrom(k, r) ==
  IF k \notin Rules THEN 0
  ELSE IF RuleViolated(k, r) THEN k
  ELSE FirstViolatedFrom(k + 1, r)

\* The earliest rule that r violates; 0 when it violates none.
FirstViolated(r) == FirstViolatedFrom(1, r)

\* The number of rules that r violates.
ViolationCount(r) == Cardinality({k \in Rules : RuleViolated(k, r)})

\* Exactly 16 characters, each in [0-9a-f].
IsHex16(t) == Len(t) = 16 /\ \A i \in 1..16 : (IsDigit(t[i]) \/ (t[i] >= 97 /\ t[i] <= 102))

\* The value of a character of the standard base64 alphabet.
Base64Value(c) ==
  IF IsUpper(c) THEN c - 65
  ELSE IF IsLower(c) THEN c - 71
  ELSE IF IsDigit(c) THEN c + 4
  ELSE IF c = 43 THEN 62 ELSE 63

IsBase64Char(c) == IsUpper(c) \/ IsLower(c) \/ IsDigit(c) \/ c = 43 \/ c = 47

\* The number of padding characters at the end of t.
PadCount(t) ==
  IF Len(t) >= 2 /\ t[Len(t)] = 61 /\ t[Len(t) - 1] = 61 THEN 2
  ELSE IF Len(t) >= 1 /\ t[Len(t)] = 61 THEN 1 ELSE 0

\* t is standard padded base64 text: groups of four characters of the
\* alphabet, the last group ending in at most two padding characters whose
\* unused bits are zero.
IsStandardBase64(t) ==
  /\ Len(t) % 4 = 0
  /\ \A i \in 1..(Len(t) - PadCount(t)) : IsBase64Char(t[i])
  /\ PadCount(t) = 1 => Base64Value(t[Len(t) - 1]) % 4 = 0
  /\ PadCount(t) = 2 => Base64Value(t[Len(t) - 2]) % 16 = 0

\* The bytes that standard base64 text stands for.
Base64Decode(t) ==
  [i \in 1..(3 * (Len(t) \div 4) - PadCount(t)) |->
     LET g == 4 * ((i - 1) \div 3)
         k == (i - 1) % 3
     IN  IF k = 0 THEN Base64Value(t[g + 1]) * 4 + Base64Value(t[g + 2]) \div 16
         ELSE IF k = 1 THEN (Base64Value(t[g + 2]) % 16) * 16 + Base64Value(t[g + 3]) \div 4
         ELSE (Base64Value(t[g + 3]) % 4) * 64 + Base64Value(t[g + 4])]

IsPrefix(p, t) == Len(t) >= Len(p) /\ SubSeq(t, 1, Len(p)) = p

(***************************************************************************)
(* C1.  Validate reports the error of the first failing rule in the fixed  *)
(* order wallet (empty, length, first character, character set), PaymentID *)
(* (length, character set), StartDate, Currency, Amount,                   *)
(* DaysPerBillingCycle, ChangeIndicatorURL, Version: it returns Ok when    *)
(* the record violates no rule, and otherwise the error of the earliest    *)
(* violated rule and no other.                                             *)
(***************************************************************************)
C1_FirstFailingRule ==
  ret.op = "Validate" =>
    LET k == FirstViolated(Before)
    IN  IF k = 0 THEN ret.kind = "Ok"
        ELSE /\ ret.kind = "Err"
             /\ IsErrorOf(k, ret.err)
             /\ \A j \in Rules : j # k => ~IsErrorOf(j, ret.err)

\* An empty wallet together with a zero DaysPerBillingCycle reports the
\* empty-wallet error.
C1_Witness ==
  /\ ret.op = "Validate"
  /\ Before.SellersWallet = <<>>
  /\ Before.DaysPerBillingCycle = 0
  /\ ViolationCount(Before) >= 2
  /\ ret.err = ErrEmptyWallet

(***************************************************************************)
(* C2.  Decode is the exact left inverse of encode: for every record that  *)
(* passes validation, DecodePaymentRequest(EncodePaymentRequest(record))   *)
(* yields a record equal, field by field, to the validator-normalized form *)
(* of the input (Request, once the encoder has returned Ok).               *)
(***************************************************************************)
C2_DecodeInvertsEncode ==
  ret.op = "DecodePaymentRequest" => (ret.kind = "Record" /\ ret.value = Request)

(***************************************************************************)
(* C3.  Whenever Validate returns Ok, the record satisfies every           *)
(* constraint of the data model: CustomLabel is non-empty, SellersWallet   *)
(* has exactly 95 or 106 characters, starts with '4' or '8' and is all     *)
(* alphanumeric, PaymentID is exactly 16 characters of [0-9a-f], StartDate *)
(* is non-empty, Currency is USD or XMR, DaysPerBillingCycle is nonzero    *)
(* and Version equals "1".                                                 *)
(***************************************************************************)
C3_OkImpliesConstraints ==
  (ret.op = "Validate" /\ ret.kind = "Ok") =>
    /\ Request.CustomLabel # <<>>
    /\ Len(Request.SellersWallet) \in {95, 106}
    /\ Request.SellersWallet[1] \in {Ord("4"), Ord("8")}
    /\ \A i \in 1..Len(Request.SellersWallet) :
         LET c == Request.SellersWallet[i] IN IsDigit(c) \/ IsUpper(c) \/ IsLower(c)
    /\ IsHex16(Request.PaymentID)
    /\ Request.StartDate # <<>>
    /\ Request.Currency \in {Str("USD"), Str("XMR")}
    /\ Request.DaysPerBillingCycle # 0
    /\ Request.Version = Str("1")

\* Validate has accepted a record whose PaymentID and Version were empty.
C3_Witness ==
  /\ ret.op = "Validate"
  /\ ret.kind = "Ok"
  /\ Before.PaymentID = <<>>
  /\ Before.Version = <<>>
  /\ Request.Version = Str("1")

(***************************************************************************)
(* C4.  With every other field valid, a wallet whose first character is    *)
(* '4' or '8' and whose characters are all alphanumeric is accepted by     *)
(* Validate if and only if its length is 95 or 106, and a wallet of any    *)
(* other length (94, 96, 105, 107) is rejected with the wallet-length      *)
(* error.                                                                  *)
(***************************************************************************)
C4_WalletLengthBoundary ==
  ( /\ ret.op = "Validate"
    /\ \A k \in 5..12 : ~RuleViolated(k, Before)
    /\ Before.SellersWallet # <<>>
    /\ Before.SellersWallet[1] \in {Ord("4"), Ord("8")}
    /\ \A i \in 1..Len(Before.SellersWallet) :
         LET c == Before.SellersWallet[i] IN IsDigit(c) \/ IsUpper(c) \/ IsLower(c) )
  =>
    /\ ret.kind = "Ok" <=> Len(Before.SellersWallet) \in {95, 106}
    /\ Len(Before.SellersWallet) \notin {95, 106} => ret.err = ErrWalletLength

\* Validate has accepted a wallet of 106 characters after it rejected none:
\* the lengths 94, 96, 105 and 107 are among the records constructed.
C4_Witness ==
  /\ ret.op = "Validate"
  /\ ret.kind = "Ok"
  /\ Len(Before.SellersWallet) = 106
  /\ {MakeWallet(n, Ord("4"), <<>>) : n \in {94, 96, 105, 107}}
       \subseteq {r.SellersWallet : r \in Records}

C7_AmountNeedsDigit ==
  ( /\ ret.op = "Validate"
    /\ \A k \in 1..8 : ~RuleViolated(k, Before)
    /\ ~\E i \in 1..Len(Before.Amount) : IsDigit(Before.Amount[i]) )
  => (ret.kind = "Err" /\ ret.err = ErrAmount)

\* Values of NumberOfPayments (a u8) that the outcome is compared on.
NumberOfPaymentsValues == {0, 1, 12, 255}

C9_ErrorLeavesRecord ==
  (ret.op = "Validate" /\ ret.kind = "Err") => Request = Before

(***************************************************************************)
(* C9, amended.  Whenever Validate returns an error, SellersWallet,        *)
(* Currency, Amount, DaysPerBillingCycle, NumberOfPayments,                *)
(* ChangeIndicatorURL and Version still have the values they had before    *)
(* the call, and the defaults of the rules that ran before the failing     *)
(* rule are applied: an empty CustomLabel has become the placeholder; an   *)
(* empty PaymentID has become a generated id when the failing rule comes   *)
(* after the wallet rules; StartDate has become the current time or its    *)
(* canonical rendering when the failing rule comes after the StartDate     *)
(* rule.                                                                   *)
(***************************************************************************)
C9_ErrorLeavesDefaults ==
  (ret.op = "Validate" /\ ret.kind = "Err") =>
    LET k == FirstViolated(Before)
    IN  /\ Request.SellersWallet = Before.SellersWallet
        /\ Request.Currency = Before.Currency
        /\ Request.Amount = Before.Amount
        /\ Request.DaysPerBillingCycle = Before.DaysPerBillingCycle
        /\ Request.NumberOfPayments = Before.NumberOfPayments
        /\ Request.ChangeIndicatorURL = Before.ChangeIndicatorURL
        /\ Request.Version = Before.Version
        /\ Request.CustomLabel =
             (IF Before.CustomLabel = <<>> THEN Str("Monero Payment Request")
              ELSE Before.CustomLabel)
        /\ IF Before.PaymentID = <<>> /\ k > 4
           THEN IsHex16(Request.PaymentID)
           ELSE Request.PaymentID = Before.PaymentID
        /\ IF k <= 7 THEN Request.StartDate = Before.StartDate
           ELSE IF Before.StartDate = <<>>
           THEN Request.StartDate \in {DateTimeToString(now) : now \in Clock}
           ELSE Request.StartDate = DateTimeToString(ParseDateTime(Before.StartDate).dt)

\* Validate has returned an error and has left a generated PaymentID behind.
C9_Witness ==
  /\ ret.op = "Validate"
  /\ ret.kind = "Err"
  /\ Before.PaymentID = <<>>
  /\ Request.PaymentID # <<>>

(***************************************************************************)
(* C10.  Validation is idempotent on its own output: when Validate has     *)
(* returned Ok, a further call of Validate on the resulting record returns *)
(* Ok and changes no field.                                                *)
(***************************************************************************)
C10_Idempotent ==
  [][(ret.op = "Validate" /\ ret.kind = "Ok" /\ ret'.op = "Validate")
       => (ret'.kind = "Ok" /\ Request' = Request)]_vars

\* A second call of Validate has returned Ok on a record that the first call
\* had normalized.
C10_Witness ==
  /\ ret.op = "Validate"
  /\ ret.kind = "Ok"
  /\ Before = Request
  /\ Input # Request

=============================================================================
